---- MODULE Spec2Model ----
(***************************************************************************)
(* The SystemBuilder web component of aero-swing: a multi-step product     *)
(* configurator (sport -> shaft type -> shaft size -> shaft card, plus     *)
(* ball and pineapple accessory panels) whose toggled products are added   *)
(* to the cart as one batch.                                               *)
(*                                                                         *)
(* The repository holds two variants of the component:                     *)
(*   "current"  src/unnamed/part_000          (several shafts per size,    *)
(*                                              quantities, resetBuilder)   *)
(*   "legacy"   src/assets/system-builder.js  (one shaft per size, no      *)
(*                                              quantities, no reset)       *)
(* The variable `variant` says which of the two one behaviour runs; the    *)
(* definitions whose name ends in Legacy model system-builder.js, the      *)
(* others part_000 (the two files agree on them where both use them).      *)
(*                                                                         *)
(* Representation:                                                         *)
(*   - null / undefined handles are the string "null";                     *)
(*   - a DOM string holding a number (data-price, the value of the hidden  *)
(*     variant_id input) is a sequence of decimal digits, "" is <<>>;      *)
(*   - a slot key is a tuple: 'shaft' is <<"shaft">>, `${type}-${index}`   *)
(*     is <<type, index>>;                                                 *)
(*   - this.selectedProducts, a JS object whose keys keep insertion        *)
(*     order, is a sequence of entries, each carrying its slotKey;         *)
(*   - titles and images of products are display text and are left out.    *)
(***************************************************************************)
EXTENDS Integers, Sequences, FiniteSets, TLC

VARIABLES
    variant,           \* "current" or "legacy": which source file runs
    data,              \* this.data: the catalog read by loadData
    state,             \* this.state: [sport, shaftType, shaftSize]
    selectedProducts,  \* this.selectedProducts, in insertion order
    chips,             \* rendered chips: [shaftType: Seq, shaftSize: Seq]
    shaftCards,        \* product cards inside [data-product="shaft"]
    hidden,            \* the `hidden` attribute of the steps and the shaft display
    titles,            \* text of the two step titles
    summary,           \* what updateSummary rendered: [items, total, count]
    button,            \* the add-to-cart button: [text, disabled]
    pc,                \* where the pending handleAddToCart call is suspended
    timers,            \* pending setTimeout callbacks
    calls,             \* history: what the handleAddToCart call whose closing
                       \* timer has not fired yet has invoked and dispatched
    lastEvent          \* history: the handler that ran last, with its arguments

vars == <<variant, data, state, selectedProducts, chips, shaftCards, hidden,
          titles, summary, button, pc, timers, calls, lastEvent>>

null == "null"

-----------------------------------------------------------------------------
(* Bounds of the model.                                                    *)

\* handleQtyChange raises quantities without limit; the model lets the
\* quantities of the selection exceed 1 by this much in total.
MaxExtraQty == 1

\* 'Select products first' timers that may be pending at once.
MaxPromptTimers == 1

-----------------------------------------------------------------------------
(* Sequences and JS conversions.                                           *)

Range(s) == {s[i] : i \in DOMAIN s}

RECURSIVE ToStr(_)
\* `${n}` for a non-negative integer: its decimal digits.
ToStr(n) == IF n < 10 THEN <<n>> ELSE ToStr(n \div 10) \o <<n % 10>>

RECURSIVE parseIntFrom(_, _)
parseIntFrom(acc, s) ==
    IF s = <<>> THEN acc ELSE parseIntFrom(acc * 10 + Head(s), Tail(s))

\* parseInt(s, 10) of a non-empty digit string.
parseInt(s) == parseIntFrom(0, s)

-----------------------------------------------------------------------------
(* The catalog feeds embedded in the page and the static cards.            *)

\* Sport chips are static markup; "cricket" is a chip whose handle the
\* catalog does not know: no feed lists it.
SportChips == {"baseball", "softball", "cricket"}

ShaftA == [id |-> 111, price |-> 29900]
ShaftB == [id |-> 112, price |-> 31900]

\* The feed read by part_000: shaft types list their sports, sizes list
\* their shafts.  "32in" offers a variant that "31in" offers too, "30in"
\* offers none.
FeedCurrent ==
    [ sports      |-> <<"baseball", "softball">>,
      shaftTypes  |-> << [handle |-> "alloy",
                          sportHandles |-> {"baseball", "softball"}],
                         [handle |-> "composite",
                          sportHandles |-> {"softball"}] >>,
      shaftSizes  |-> << [handle |-> "31in", shaftTypeHandle |-> "alloy",
                          shafts |-> <<ShaftA, ShaftB>>],
                         [handle |-> "32in", shaftTypeHandle |-> "alloy",
                          shafts |-> <<ShaftB>>],
                         [handle |-> "30in", shaftTypeHandle |-> "composite",
                          shafts |-> <<>>] >>,
      sportLabels |-> << [sportHandle |-> "softball",
                          shaftTypeTitle |-> "Handle type",
                          shaftSizeTitle |-> ""] >> ]

\* The feed read by system-builder.js: one sportHandle per shaft type, one
\* `shaft` per size (<<>> where the size has none).
FeedLegacy ==
    [ sports      |-> <<"baseball", "softball">>,
      shaftTypes  |-> << [handle |-> "alloy", sportHandle |-> "baseball"],
                         [handle |-> "composite", sportHandle |-> "softball"] >>,
      shaftSizes  |-> << [handle |-> "31in", shaftTypeHandle |-> "alloy",
                          shaft |-> <<ShaftA>>],
                         [handle |-> "32in", shaftTypeHandle |-> "alloy",
                          shaft |-> <<ShaftB>>],
                         [handle |-> "30in", shaftTypeHandle |-> "composite",
                          shaft |-> <<>>] >>,
      sportLabels |-> <<>> ]

\* Accessory cards are static markup: type, index, data-price and the value
\* of the hidden variant_id input ("" on the last card: no resolvable id).
AccessoryCards ==
    { [productType |-> "ball", productIndex |-> "0",
       variantId |-> ToStr(222), price |-> ToStr(500)],
      [productType |-> "pineapple", productIndex |-> "0",
       variantId |-> ToStr(333), price |-> ToStr(900)],
      [productType |-> "ball", productIndex |-> "1",
       variantId |-> <<>>, price |-> ToStr(700)] }

DefaultShaftTypeTitle == "Choose shaft type"
DefaultShaftSizeTitle == "Choose shaft size"
OriginalText == "Add to Cart"

-----------------------------------------------------------------------------
(* this.selectedProducts as an insertion-ordered mapping.                  *)

ShaftKey == <<"shaft">>

\* `${productType}-${index}`
accessoryKey(productType, index) == <<productType, index>>

\* key.startsWith(prefix + '-') for a key built by accessoryKey
startsWith(key, prefix) == Len(key) = 2 /\ key[1] = prefix

Keys(sp) == {sp[i].slotKey : i \in DOMAIN sp}

\* obj[key] as a sequence: <<>> when the key is absent (undefined)
Lookup(sp, key) == SelectSeq(sp, LAMBDA p : p.slotKey = key)

Has(sp, key) == key \in Keys(sp)

\* delete obj[key]
Delete(sp, key) == SelectSeq(sp, LAMBDA p : p.slotKey # key)

\* obj[entry.slotKey] = entry: an existing key keeps its place, a new key
\* goes last
Put(sp, entry) ==
    IF Has(sp, entry.slotKey)
    THEN [i \in DOMAIN sp |->
            IF sp[i].slotKey = entry.slotKey THEN entry ELSE sp[i]]
    ELSE Append(sp, entry)

\* product.quantity || 1 (a legacy entry has no quantity)
Quantity(p) ==
    IF "quantity" \in DOMAIN p /\ p.quantity # 0 THEN p.quantity ELSE 1

RECURSIVE SumSeq(_)
SumSeq(s) == IF s = <<>> THEN 0 ELSE Head(s) + SumSeq(Tail(s))

\* by how much the quantities exceed 1, over the whole selection
extraQty(sp) == SumSeq([i \in DOMAIN sp |-> Quantity(sp[i]) - 1])

-----------------------------------------------------------------------------
(* Data loading.                                                           *)

\* The text of the embedded JSON elements: `value` is what JSON.parse
\* returns for a well-formed text; parsing the feed named `bad` throws.
Feeds(parsed, bad) ==
    [f \in DOMAIN parsed |-> [wellFormed |-> f # bad, value |-> parsed[f]]]

\* this.data as the constructor leaves it (sportLabels undefined: <<>>)
EmptyData ==
    [sports |-> <<>>, shaftTypes |-> <<>>, shaftSizes |-> <<>>,
     sportLabels |-> <<>>]

\* loadData of part_000: the four JSON.parse calls run in order inside one
\* try block; the first malformed feed throws and the assignments after
\* it do not happen.
loadData(feeds) ==
    IF ~feeds.sports.wellFormed THEN EmptyData
    ELSE IF ~feeds.shaftTypes.wellFormed
         THEN [EmptyData EXCEPT !.sports = feeds.sports.value]
    ELSE IF ~feeds.shaftSizes.wellFormed
         THEN [EmptyData EXCEPT !.sports = feeds.sports.value,
                                !.shaftTypes = feeds.shaftTypes.value]
    ELSE IF ~feeds.sportLabels.wellFormed
         THEN [EmptyData EXCEPT !.sports = feeds.sports.value,
                                !.shaftTypes = feeds.shaftTypes.value,
                                !.shaftSizes = feeds.shaftSizes.value]
    ELSE [sports |-> feeds.sports.value, shaftTypes |-> feeds.shaftTypes.value,
          shaftSizes |-> feeds.shaftSizes.value, sportLabels |-> feeds.sportLabels.value]

\* loadData of system-builder.js: three feeds, no sportLabels.
loadDataLegacy(feeds) ==
    IF ~feeds.sports.wellFormed THEN EmptyData
    ELSE IF ~feeds.shaftTypes.wellFormed
         THEN [EmptyData EXCEPT !.sports = feeds.sports.value]
    ELSE IF ~feeds.shaftSizes.wellFormed
         THEN [EmptyData EXCEPT !.sports = feeds.sports.value,
                                !.shaftTypes = feeds.shaftTypes.value]
    ELSE [EmptyData EXCEPT !.sports = feeds.sports.value,
                           !.shaftTypes = feeds.shaftTypes.value,
                           !.shaftSizes = feeds.shaftSizes.value]

-----------------------------------------------------------------------------
(* The component.  `self` is the part of `this` and of its DOM subtree     *)
(* that the handlers write: [state, selectedProducts, chips, shaftCards,   *)
(* hidden, titles, summary, button].  this.data is read through `data`.    *)

\* 'Add to Cart (n item(s))'
CountLabel(n) ==
    "Add to Cart (" \o ToString(n) \o (IF n # 1 THEN " items)" ELSE " item)")

\* entries.map(...): one summary line per entry, with its quantity, its line
\* price and the slot key its remove and quantity buttons carry
summaryItems(entries) ==
    [i \in DOMAIN entries |->
        [slotKey   |-> entries[i].slotKey,
         qty       |-> Quantity(entries[i]),
         linePrice |-> entries[i].price * Quantity(entries[i])]]

\* Fault considered: the total adds the unit prices
summaryTotalUnitPrices(entries) ==
    SumSeq([i \in DOMAIN entries |-> entries[i].price])

\* entries.reduce((sum, p) => sum + (p.price || 0) * (p.quantity || 1), 0)
summaryTotal(entries) ==
    SumSeq([i \in DOMAIN entries |-> entries[i].price * Quantity(entries[i])])

\* count: entries.length, which decides hasItems and is shown in the label
updateSummary(self) ==
    LET entries == self.selectedProducts IN
    [self EXCEPT
        !.summary = [items |-> summaryItems(entries),
                     total |-> summaryTotal(entries),
                     count |-> Len(entries)],
        !.button.text = IF Len(entries) > 0 THEN CountLabel(Len(entries))
                        ELSE OriginalText]

\* system-builder.js: no quantity on a line, the total adds the prices
summaryItemsLegacy(entries) ==
    [i \in DOMAIN entries |->
        [slotKey |-> entries[i].slotKey, linePrice |-> entries[i].price]]

summaryTotalLegacy(entries) ==
    SumSeq([i \in DOMAIN entries |-> entries[i].price])

updateSummaryLegacy(self) ==
    LET entries == self.selectedProducts IN
    [self EXCEPT
        !.summary = [items |-> summaryItemsLegacy(entries),
                     total |-> summaryTotalLegacy(entries),
                     count |-> Len(entries)],
        !.button.text = IF Len(entries) > 0 THEN CountLabel(Len(entries))
                        ELSE OriginalText]

hideStep(self, stepName) == [self EXCEPT !.hidden[stepName] = TRUE]

clearShaftSizeChips(self) == [self EXCEPT !.chips.shaftSize = <<>>]

hideShaftProduct(self) ==
    [self EXCEPT !.shaftCards = <<>>,
                 !.hidden["shaft-product"] = TRUE,
                 !.selectedProducts = Delete(@, ShaftKey)]

\* Fault considered: the panels are shown afresh, without their entries
showAccessoryPanelsCleared(self) ==
    [self EXCEPT
        !.hidden["balls"] = FALSE,
        !.hidden["pineapples"] = FALSE,
        !.selectedProducts =
            SelectSeq(@, LAMBDA p : ~(startsWith(p.slotKey, "ball")
                                      \/ startsWith(p.slotKey, "pineapple")))]

showAccessoryPanels(self) ==
    [self EXCEPT !.hidden["balls"] = FALSE, !.hidden["pineapples"] = FALSE]

\* Fault considered: only the ball entries are removed
hideAccessoryPanelsBallsOnly(self) ==
    [self EXCEPT
        !.hidden["balls"] = TRUE,
        !.hidden["pineapples"] = TRUE,
        !.selectedProducts =
            SelectSeq(@, LAMBDA p : ~startsWith(p.slotKey, "ball"))]

\* Fault considered: the panels are hidden and their entries stay selected
hideAccessoryPanelsKeepsEntries(self) ==
    [self EXCEPT !.hidden["balls"] = TRUE, !.hidden["pineapples"] = TRUE]

hideAccessoryPanels(self) ==
    [self EXCEPT
        !.hidden["balls"] = TRUE,
        !.hidden["pineapples"] = TRUE,
        !.selectedProducts =
            SelectSeq(@, LAMBDA p : ~(startsWith(p.slotKey, "ball")
                                      \/ startsWith(p.slotKey, "pineapple")))]

\* the chips created for the filtered catalog entries, in their order:
\* one chip per entry, carrying the entry's handle as its value
createChips(filtered) == [i \in DOMAIN filtered |-> filtered[i].handle]

renderShaftTypes(self) ==
    LET filtered == createChips(SelectSeq(data.shaftTypes,
                        LAMBDA st : self.state.sport \in st.sportHandles))
    IN  [self EXCEPT !.chips.shaftType = filtered,
                     !.hidden["shaft-type"] = FALSE]

renderShaftTypesLegacy(self) ==
    LET filtered == createChips(SelectSeq(data.shaftTypes,
                        LAMBDA st : st.sportHandle = self.state.sport))
    IN  [self EXCEPT !.chips.shaftType = filtered,
                     !.hidden["shaft-type"] = FALSE]

\* Fault considered: every shaft size is offered, whatever the shaft type
renderShaftSizesUnfiltered(self) ==
    LET filtered == createChips(data.shaftSizes)
    IN  [self EXCEPT !.chips.shaftSize = filtered,
                     !.hidden["shaft-size"] = FALSE]

renderShaftSizes(self) ==
    LET filtered == createChips(SelectSeq(data.shaftSizes,
                        LAMBDA ss : ss.shaftTypeHandle = self.state.shaftType))
    IN  [self EXCEPT !.chips.shaftSize = filtered,
                     !.hidden["shaft-size"] = FALSE]

\* this.data.shaftSizes.find(ss => ss.handle === handle): <<>> for undefined
findShaftSize(handle) ==
    LET hits == SelectSeq(data.shaftSizes, LAMBDA ss : ss.handle = handle)
    IN  IF hits = <<>> THEN <<>> ELSE <<Head(hits)>>

\* the card rendered for shaft variant v: data-price and the hidden input
shaftCard(v) ==
    [productType |-> "shaft", variantId |-> ToStr(v.id), price |-> ToStr(v.price)]

\* Fault considered: the shaft entry survives the new size (as in system-builder.js)
renderShaftProductKeepsShaft(self) ==
    LET sizeData == findShaftSize(self.state.shaftSize) IN
    IF sizeData = <<>> \/ Len(sizeData[1].shafts) = 0
    THEN hideShaftProduct(self)
    ELSE [self EXCEPT
            !.shaftCards = [i \in DOMAIN sizeData[1].shafts |->
                               shaftCard(sizeData[1].shafts[i])],
            !.hidden["shaft-product"] = FALSE]

\* Fault considered: the shaft entry is cleared only when the new size does not offer
\* its variant
renderShaftProductKeepsOffered(self) ==
    LET sizeData == findShaftSize(self.state.shaftSize)
        current  == Lookup(self.selectedProducts, ShaftKey)
    IN
    IF sizeData = <<>> \/ Len(sizeData[1].shafts) = 0
    THEN hideShaftProduct(self)
    ELSE [self EXCEPT
            !.selectedProducts =
                IF current # <<>> /\ \E i \in DOMAIN sizeData[1].shafts :
                                        sizeData[1].shafts[i].id = current[1].id
                THEN @ ELSE Delete(@, ShaftKey),
            !.shaftCards = [i \in DOMAIN sizeData[1].shafts |->
                               shaftCard(sizeData[1].shafts[i])],
            !.hidden["shaft-product"] = FALSE]

renderShaftProduct(self) ==
    LET sizeData == findShaftSize(self.state.shaftSize) IN
    IF sizeData = <<>> \/ Len(sizeData[1].shafts) = 0
    THEN hideShaftProduct(self)
    ELSE [self EXCEPT
            !.selectedProducts = Delete(@, ShaftKey),
            !.shaftCards = [i \in DOMAIN sizeData[1].shafts |->
                               shaftCard(sizeData[1].shafts[i])],
            !.hidden["shaft-product"] = FALSE]

\* system-builder.js: one card for sizeData.shaft; a shaft entry that is
\* already selected stays and the new card is drawn as selected
renderShaftProductLegacy(self) ==
    LET sizeData == findShaftSize(self.state.shaftSize) IN
    IF sizeData = <<>> \/ sizeData[1].shaft = <<>>
    THEN hideShaftProduct(self)
    ELSE [self EXCEPT
            !.shaftCards = <<shaftCard(sizeData[1].shaft[1])>>,
            !.hidden["shaft-product"] = FALSE]

\* Fault considered: a title is written only when the sport overrides it
updateStepTitlesOverridesOnly(self, sportHandle) ==
    LET labelData == SelectSeq(data.sportLabels,
                               LAMBDA l : l.sportHandle = sportHandle)
        pick(field, current) ==
            IF labelData # <<>> /\ labelData[1][field] # ""
            THEN labelData[1][field] ELSE current
    IN  [self EXCEPT
            !.titles = [shaftType |-> pick("shaftTypeTitle", self.titles.shaftType),
                        shaftSize |-> pick("shaftSizeTitle", self.titles.shaftSize)]]

\* this.data.sportLabels?.find(l => l.sportHandle === sportHandle), then
\* labelData?.shaftTypeTitle || default ("" is falsy)
updateStepTitles(self, sportHandle) ==
    LET labelData == SelectSeq(data.sportLabels,
                               LAMBDA l : l.sportHandle = sportHandle)
        pick(field, default) ==
            IF labelData # <<>> /\ labelData[1][field] # ""
            THEN labelData[1][field] ELSE default
    IN  [self EXCEPT
            !.titles = [shaftType |-> pick("shaftTypeTitle", DefaultShaftTypeTitle),
                        shaftSize |-> pick("shaftSizeTitle", DefaultShaftSizeTitle)]]

-----------------------------------------------------------------------------
(* Event handlers, as functions from `self` before to `self` after.        *)

\* part_000: switch (field) of handleChipClick
chipSwitch(self, field, value) ==
        CASE field = "sport" ->
                hideAccessoryPanels(hideShaftProduct(clearShaftSizeChips(
                  hideStep(
                    renderShaftTypes(
                      updateStepTitles(
                        [self EXCEPT
                            !.state = [sport |-> value, shaftType |-> null,
                                       shaftSize |-> null],
                            !.selectedProducts = Delete(@, ShaftKey)],
                        value)),
                    "shaft-size"))))
          [] field = "shaft-type" ->
                hideAccessoryPanels(hideShaftProduct(
                  renderShaftSizes(
                    [self EXCEPT
                        !.state.shaftType = value,
                        !.state.shaftSize = null,
                        !.selectedProducts = Delete(@, ShaftKey)])))
          [] field = "shaft-size" ->
                showAccessoryPanels(renderShaftProduct(
                    [self EXCEPT !.state.shaftSize = value]))
          [] OTHER -> self

\* Fault considered: a click on the chip of the sport already chosen is ignored
handleChipClickSameSport(self, field, value) ==
    IF field = "sport" /\ value = self.state.sport THEN self
    ELSE updateSummary(chipSwitch(self, field, value))

\* Fault considered: a value the catalog does not list for the field is ignored
handleChipClickKnownOnly(self, field, value) ==
    LET known ==
          CASE field = "sport" -> Range(data.sports)
            [] field = "shaft-type" ->
                 {data.shaftTypes[i].handle : i \in DOMAIN data.shaftTypes}
            [] field = "shaft-size" ->
                 {data.shaftSizes[i].handle : i \in DOMAIN data.shaftSizes}
            [] OTHER -> {}
    IN  IF value \in known THEN updateSummary(chipSwitch(self, field, value))
        ELSE self

\* part_000: handleChipClick ends with updateSummary
handleChipClick(self, field, value) ==
    updateSummary(chipSwitch(self, field, value))

\* system-builder.js: the same switch without updateStepTitles, with the
\* legacy renderers
chipSwitchLegacy(self, field, value) ==
        CASE field = "sport" ->
                hideAccessoryPanels(hideShaftProduct(clearShaftSizeChips(
                  hideStep(
                    renderShaftTypesLegacy(
                        [self EXCEPT
                            !.state = [sport |-> value, shaftType |-> null,
                                       shaftSize |-> null],
                            !.selectedProducts = Delete(@, ShaftKey)]),
                    "shaft-size"))))
          [] field = "shaft-type" ->
                hideAccessoryPanels(hideShaftProduct(
                  renderShaftSizes(
                    [self EXCEPT
                        !.state.shaftType = value,
                        !.state.shaftSize = null,
                        !.selectedProducts = Delete(@, ShaftKey)])))
          [] field = "shaft-size" ->
                showAccessoryPanels(renderShaftProductLegacy(
                    [self EXCEPT !.state.shaftSize = value]))
          [] OTHER -> self

handleChipClickLegacy(self, field, value) ==
    updateSummaryLegacy(chipSwitchLegacy(self, field, value))

\* Fault considered: a click on any shaft card empties an occupied shaft slot
toggleShaftAnyOccupant(sp, card) ==
    IF Has(sp, ShaftKey)
    THEN Delete(sp, ShaftKey)
    ELSE Put(sp, [slotKey |-> ShaftKey, id |-> parseInt(card.variantId),
                  price |-> parseInt(card.price), quantity |-> 1])

\* Fault considered: a click on the occupant selects it again instead of removing it
toggleShaftNoToggleOff(sp, card) ==
    Put(sp, [slotKey |-> ShaftKey, id |-> parseInt(card.variantId),
             price |-> parseInt(card.price), quantity |-> 1])

\* Fault considered: a replacing variant inherits the quantity of the replaced one
toggleShaftKeepsQty(sp, card) ==
    LET clickedId == parseInt(card.variantId)
        current == Lookup(sp, ShaftKey)
        alreadySelected == current # <<>> /\ current[1].id = clickedId
    IN  IF alreadySelected
        THEN Delete(sp, ShaftKey)
        ELSE Put(sp, [slotKey |-> ShaftKey, id |-> clickedId,
                      price |-> parseInt(card.price),
                      quantity |-> IF current = <<>> THEN 1
                                   ELSE Quantity(current[1])])

\* the shaft branch: the clicked variant replaces any other occupant, a
\* click on the occupant removes it
toggleShaft(sp, card) ==
    LET clickedId == parseInt(card.variantId)
        current == Lookup(sp, ShaftKey)
        alreadySelected == current # <<>> /\ current[1].id = clickedId
    IN  IF alreadySelected
        THEN Delete(sp, ShaftKey)
        ELSE Put(sp, [slotKey |-> ShaftKey, id |-> clickedId,
                      price |-> parseInt(card.price), quantity |-> 1])

\* Fault considered: selecting an accessory deselects the other accessories
toggleAccessoryExclusive(sp, card) ==
    LET slotKey == accessoryKey(card.productType, card.productIndex) IN
    IF Has(sp, slotKey)
    THEN Delete(sp, slotKey)
    ELSE Put(SelectSeq(sp, LAMBDA p : p.slotKey = ShaftKey),
             [slotKey |-> slotKey, id |-> parseInt(card.variantId),
              price |-> parseInt(card.price), quantity |-> 1])

\* the accessory branch: each slot toggles on its own
toggleAccessory(sp, card) ==
    LET slotKey == accessoryKey(card.productType, card.productIndex) IN
    IF Has(sp, slotKey)
    THEN Delete(sp, slotKey)
    ELSE Put(sp, [slotKey |-> slotKey, id |-> parseInt(card.variantId),
                  price |-> parseInt(card.price), quantity |-> 1])

\* Fault considered: a card without variant id is toggled like any other
handleProductCardClickAnyId(self, card) ==
    updateSummary(
        [self EXCEPT !.selectedProducts =
            IF card.productType = "shaft" THEN toggleShaft(@, card)
            ELSE toggleAccessory(@, card)])

handleProductCardClick(self, card) ==
    IF card.variantId = <<>> THEN self
    ELSE updateSummary(
            [self EXCEPT !.selectedProducts =
                IF card.productType = "shaft" THEN toggleShaft(@, card)
                ELSE toggleAccessory(@, card)])

\* system-builder.js: one rule for every slot, an occupied slot is emptied
\* whatever the clicked card is; entries carry no quantity
toggleLegacy(sp, card) ==
    LET slotKey == IF card.productType = "shaft" THEN ShaftKey
                   ELSE accessoryKey(card.productType, card.productIndex)
    IN  IF Has(sp, slotKey)
        THEN Delete(sp, slotKey)
        ELSE Put(sp, [slotKey |-> slotKey, id |-> parseInt(card.variantId),
                      price |-> parseInt(card.price)])

handleProductCardClickLegacy(self, card) ==
    IF card.variantId = <<>> THEN self
    ELSE updateSummaryLegacy(
            [self EXCEPT !.selectedProducts = toggleLegacy(@, card)])

handleRemoveFromSummary(self, slotKey) ==
    updateSummary([self EXCEPT !.selectedProducts = Delete(@, slotKey)])

handleRemoveFromSummaryLegacy(self, slotKey) ==
    updateSummaryLegacy([self EXCEPT !.selectedProducts = Delete(@, slotKey)])

\* Fault considered: the new quantity is stored whatever it is
handleQtyChangeNoFloor(self, slotKey, delta) ==
    IF ~Has(self.selectedProducts, slotKey) THEN self
    ELSE LET product == Lookup(self.selectedProducts, slotKey)[1]
             newQty  == Quantity(product) + delta
         IN  updateSummary([self EXCEPT !.selectedProducts =
                    Put(@, [product EXCEPT !.quantity = newQty])])

\* Fault considered: a quantity that would fall below 1 removes the entry
handleQtyChangeRemovesAtZero(self, slotKey, delta) ==
    IF ~Has(self.selectedProducts, slotKey) THEN self
    ELSE LET product == Lookup(self.selectedProducts, slotKey)[1]
             newQty  == Quantity(product) + delta
         IN  IF newQty < 1
             THEN updateSummary([self EXCEPT !.selectedProducts =
                                     Delete(@, slotKey)])
             ELSE updateSummary([self EXCEPT !.selectedProducts =
                        Put(@, [product EXCEPT !.quantity = newQty])])

\* part_000 only: the -1 / +1 buttons of a summary line
handleQtyChange(self, slotKey, delta) ==
    IF ~Has(self.selectedProducts, slotKey) THEN self
    ELSE LET product == Lookup(self.selectedProducts, slotKey)[1]
             newQty  == Quantity(product) + delta
         IN  IF newQty < 1 THEN self
             ELSE updateSummary(
                    [self EXCEPT !.selectedProducts =
                        Put(@, [product EXCEPT !.quantity = newQty])])

\* Fault considered: the step titles are left as the last sport set them
resetBuilderKeepsTitles(self) ==
    updateSummary(
      hideAccessoryPanels(hideShaftProduct(clearShaftSizeChips(
        hideStep(hideStep(
          [self EXCEPT
              !.state = [sport |-> null, shaftType |-> null, shaftSize |-> null],
              !.selectedProducts = <<>>],
          "shaft-type"), "shaft-size")))))

\* part_000 only
resetBuilder(self) ==
    updateSummary(
      hideAccessoryPanels(hideShaftProduct(clearShaftSizeChips(
        hideStep(hideStep(
          [self EXCEPT
              !.state = [sport |-> null, shaftType |-> null, shaftSize |-> null],
              !.selectedProducts = <<>>,
              !.titles = [shaftType |-> DefaultShaftTypeTitle,
                          shaftSize |-> DefaultShaftSizeTitle]],
          "shaft-type"), "shaft-size")))))

\* Fault considered: every item is sent with quantity 1
cartItemsOneEach(sp) ==
    LET kept == SelectSeq(sp, LAMBDA p : p.id # 0)
    IN  [i \in DOMAIN kept |-> [id |-> kept[i].id, quantity |-> 1]]

\* Object.values(this.selectedProducts).filter(p => p.id)
\*     .map(p => ({ id: p.id, quantity: p.quantity || 1 }))
cartItems(sp) ==
    LET kept == SelectSeq(sp, LAMBDA p : p.id # 0)
    IN  [i \in DOMAIN kept |-> [id |-> kept[i].id, quantity |-> Quantity(kept[i])]]

\* system-builder.js sends quantity 1 for every entry
cartItemsLegacy(sp) ==
    LET kept == SelectSeq(sp, LAMBDA p : p.id # 0)
    IN  [i \in DOMAIN kept |-> [id |-> kept[i].id, quantity |-> 1]]

-----------------------------------------------------------------------------
(* The state machine.                                                      *)

Variants == {"current", "legacy"}

This ==
    [state |-> state, selectedProducts |-> selectedProducts, chips |-> chips,
     shaftCards |-> shaftCards, hidden |-> hidden, titles |-> titles,
     summary |-> summary, button |-> button]

\* the handler's writes become the next state
Becomes(self) ==
    /\ state' = self.state
    /\ selectedProducts' = self.selectedProducts
    /\ chips' = self.chips
    /\ shaftCards' = self.shaftCards
    /\ hidden' = self.hidden
    /\ titles' = self.titles
    /\ summary' = self.summary
    /\ button' = self.button

\* what the history keeps of the state a handler started from
Before ==
    [state |-> state, selectedProducts |-> selectedProducts]

\* the constructor, then connectedCallback: loadData, the default titles,
\* updateSummary.  The dynamic steps and the shaft display start hidden and
\* empty.
Init ==
    /\ variant \in Variants
    /\ data = IF variant = "current" THEN loadData(Feeds(FeedCurrent, "none"))
              ELSE loadDataLegacy(Feeds(FeedLegacy, "none"))
    /\ state = [sport |-> null, shaftType |-> null, shaftSize |-> null]
    /\ selectedProducts = <<>>
    /\ chips = [shaftType |-> <<>>, shaftSize |-> <<>>]
    /\ shaftCards = <<>>
    /\ hidden = [s \in {"shaft-type", "shaft-size", "balls", "pineapples",
                        "shaft-product"} |-> TRUE]
    /\ titles = [shaftType |-> DefaultShaftTypeTitle,
                 shaftSize |-> DefaultShaftSizeTitle]
    /\ summary = [items |-> <<>>, total |-> 0, count |-> 0]
    /\ button = [text |-> OriginalText, disabled |-> FALSE]
    /\ pc = "idle"
    /\ timers = [prompt |-> 0, outcome |-> "none"]
    /\ calls = <<>>
    /\ lastEvent = [op |-> "connectedCallback"]

\* the chips a click can land on: the sport chips, and the rendered chips of
\* a step that is not hidden
ClickableChips ==
    {<<"sport", v>> : v \in SportChips}
    \cup (IF hidden["shaft-type"] THEN {}
          ELSE {<<"shaft-type", chips.shaftType[i]>> : i \in DOMAIN chips.shaftType})
    \cup (IF hidden["shaft-size"] THEN {}
          ELSE {<<"shaft-size", chips.shaftSize[i]>> : i \in DOMAIN chips.shaftSize})

\* the product cards a click or key press can land on
ClickableCards ==
    (IF hidden["shaft-product"] THEN {}
     ELSE {shaftCards[i] : i \in DOMAIN shaftCards})
    \cup {c \in AccessoryCards :
            \/ c.productType = "ball" /\ ~hidden["balls"]
            \/ c.productType = "pineapple" /\ ~hidden["pineapples"]}

cardSlotKey(card) ==
    IF card.productType = "shaft" THEN ShaftKey
    ELSE accessoryKey(card.productType, card.productIndex)

ChipClick ==
    \E chip \in ClickableChips :
        /\ Becomes(IF variant = "current"
                   THEN handleChipClick(This, chip[1], chip[2])
                   ELSE handleChipClickLegacy(This, chip[1], chip[2]))
        /\ lastEvent' = [op |-> "chip", field |-> chip[1], value |-> chip[2],
                         pre |-> Before]
        /\ UNCHANGED <<variant, data, pc, timers, calls>>

ProductCardClick ==
    \E card \in ClickableCards :
        /\ Becomes(IF variant = "current"
                   THEN handleProductCardClick(This, card)
                   ELSE handleProductCardClickLegacy(This, card))
        /\ lastEvent' = [op |-> "card", card |-> card,
                         slotKey |-> cardSlotKey(card),
                         pre |-> Before]
        /\ UNCHANGED <<variant, data, pc, timers, calls>>

\* the remove buttons are those of the summary lines
RemoveFromSummary ==
    \E i \in DOMAIN summary.items :
        /\ Becomes(IF variant = "current"
                   THEN handleRemoveFromSummary(This, summary.items[i].slotKey)
                   ELSE handleRemoveFromSummaryLegacy(This, summary.items[i].slotKey))
        /\ lastEvent' = [op |-> "remove", slotKey |-> summary.items[i].slotKey,
                         pre |-> Before]
        /\ UNCHANGED <<variant, data, pc, timers, calls>>

\* only part_000 renders quantity buttons and binds them
QtyChange ==
    /\ variant = "current"
    /\ \E i \in DOMAIN summary.items, delta \in {-1, 1} :
        /\ extraQty(selectedProducts) + delta <= MaxExtraQty
        /\ Becomes(handleQtyChange(This, summary.items[i].slotKey, delta))
        /\ lastEvent' = [op |-> "qty", slotKey |-> summary.items[i].slotKey,
                         delta |-> delta, pre |-> Before]
        /\ UNCHANGED <<variant, data, pc, timers, calls>>

\* Fault considered: the request is sent even when there are no items
AddToCartClickSendsEmpty ==
    /\ ~button.disabled
    /\ LET items == IF variant = "current" THEN cartItems(selectedProducts)
                    ELSE cartItemsLegacy(selectedProducts)
       IN  /\ button' = [text |-> "Adding...", disabled |-> TRUE]
           /\ pc' = "addItems"
           /\ timers' = timers
           /\ calls' = Append(calls, "addItems")
           /\ lastEvent' = [op |-> "submit", body |-> items, pre |-> Before]
    /\ UNCHANGED <<variant, data, state, selectedProducts, chips, shaftCards,
                   hidden, titles, summary>>

\* Fault considered: the button is not disabled while the request is out
AddToCartClickStaysEnabled ==
    /\ ~button.disabled
    /\ LET items == IF variant = "current" THEN cartItems(selectedProducts)
                    ELSE cartItemsLegacy(selectedProducts)
       IN  /\ IF Len(items) = 0
              THEN /\ timers.prompt < MaxPromptTimers
                   /\ button' = [button EXCEPT !.text = "Select products first"]
                   /\ timers' = [timers EXCEPT !.prompt = @ + 1]
                   /\ pc' = pc
                   /\ calls' = calls
              ELSE /\ button' = [button EXCEPT !.text = "Adding..."]
                   /\ pc' = "addItems"
                   /\ timers' = timers
                   /\ calls' = Append(calls, "addItems")
           /\ lastEvent' = [op |-> "submit", body |-> items, pre |-> Before]
    /\ UNCHANGED <<variant, data, state, selectedProducts, chips, shaftCards,
                   hidden, titles, summary>>

\* handleAddToCart up to its first await: a disabled button gets no click
AddToCartClick ==
    /\ ~button.disabled
    /\ LET items == IF variant = "current" THEN cartItems(selectedProducts)
                    ELSE cartItemsLegacy(selectedProducts)
       IN  /\ IF Len(items) = 0
              THEN /\ timers.prompt < MaxPromptTimers
                   /\ button' = [button EXCEPT !.text = "Select products first"]
                   /\ timers' = [timers EXCEPT !.prompt = @ + 1]
                   /\ pc' = pc
                   /\ calls' = calls
              ELSE /\ button' = [text |-> "Adding...", disabled |-> TRUE]
                   /\ pc' = "addItems"
                   /\ timers' = timers
                   /\ calls' = Append(calls, "addItems")
           \* body: the items handed to JSON.stringify, when there are any
           /\ lastEvent' = [op |-> "submit", body |-> items, pre |-> Before]
    /\ UNCHANGED <<variant, data, state, selectedProducts, chips, shaftCards,
                   hidden, titles, summary>>

\* the catch block: the error text, and a timer that re-enables the button
Failed ==
    /\ button' = [button EXCEPT !.text = "Error - Try Again"]
    /\ timers' = [timers EXCEPT !.outcome = "error"]
    /\ pc' = "idle"
    /\ calls' = calls

\* Fault considered: the status of the add-items response is not looked at
AddItemsSettlesAnyStatus ==
    /\ pc = "addItems"
    /\ \E result \in {"ok", "notOk", "rejected", "badBody"} :
        /\ IF result \in {"ok", "notOk"}
           THEN /\ pc' = "readCart"
                /\ calls' = Append(calls, "readCart")
                /\ UNCHANGED <<button, timers>>
           ELSE Failed
        /\ lastEvent' = [op |-> "addItems", result |-> result, pre |-> Before]
    /\ UNCHANGED <<variant, data, state, selectedProducts, chips, shaftCards,
                   hidden, titles, summary>>

\* fetch('/cart/add.js') settles: ok, a non-ok status, a rejection, or an
\* ok response whose body response.json() cannot read
AddItemsSettles ==
    /\ pc = "addItems"
    /\ \E result \in {"ok", "notOk", "rejected", "badBody"} :
        /\ IF result = "ok"
           THEN /\ pc' = "readCart"
                /\ calls' = Append(calls, "readCart")
                /\ UNCHANGED <<button, timers>>
           ELSE Failed
        /\ lastEvent' = [op |-> "addItems", result |-> result, pre |-> Before]
    /\ UNCHANGED <<variant, data, state, selectedProducts, chips, shaftCards,
                   hidden, titles, summary>>

\* fetch('/cart.js') and cartResponse.json() settle; on success the events
\* are dispatched, 'Added!' is shown and the closing timer is set
ReadCartSettles ==
    /\ pc = "readCart"
    /\ \E result \in {"ok", "rejected"} :
        /\ IF result = "ok"
           THEN /\ button' = [button EXCEPT !.text = "Added!"]
                /\ timers' = [timers EXCEPT !.outcome = "success"]
                /\ pc' = "idle"
                /\ calls' = calls \o <<"updateCartCount", "cart:change",
                                       "cart:refresh">>
                              \o (IF variant = "current"
                                  THEN <<"ON_ITEM_ADDED">> ELSE <<>>)
           ELSE Failed
        /\ lastEvent' = [op |-> "readCart", result |-> result, pre |-> Before]
    /\ UNCHANGED <<variant, data, state, selectedProducts, chips, shaftCards,
                   hidden, titles, summary>>

\* setTimeout(() => { button.textContent = original; }, 2000)
PromptTimerFires ==
    /\ timers.prompt > 0
    /\ timers' = [timers EXCEPT !.prompt = @ - 1]
    /\ button' = [button EXCEPT !.text = OriginalText]
    /\ lastEvent' = [op |-> "promptTimer", pre |-> Before]
    /\ UNCHANGED <<variant, data, state, selectedProducts, chips, shaftCards,
                   hidden, titles, summary, pc, calls>>

\* Fault considered: the timer of the catch block restores the text only
ErrorTimerFiresTextOnly ==
    /\ timers.outcome = "error"
    /\ timers' = [timers EXCEPT !.outcome = "none"]
    /\ button' = [button EXCEPT !.text = OriginalText]
    /\ calls' = <<>>
    /\ lastEvent' = [op |-> "errorTimer", pre |-> Before]
    /\ UNCHANGED <<variant, data, state, selectedProducts, chips, shaftCards,
                   hidden, titles, summary, pc>>

\* Fault considered: the timer of the catch block resets the builder
ErrorTimerFiresResets ==
    /\ timers.outcome = "error"
    /\ timers' = [timers EXCEPT !.outcome = "none"]
    /\ Becomes([resetBuilder(This) EXCEPT !.button.disabled = FALSE])
    /\ calls' = <<>>
    /\ lastEvent' = [op |-> "errorTimer", pre |-> Before]
    /\ UNCHANGED <<variant, data, pc>>

\* the timer of the catch block, in both files
ErrorTimerFires ==
    /\ timers.outcome = "error"
    /\ timers' = [timers EXCEPT !.outcome = "none"]
    /\ button' = [text |-> OriginalText, disabled |-> FALSE]
    /\ calls' = <<>>
    /\ lastEvent' = [op |-> "errorTimer", pre |-> Before]
    /\ UNCHANGED <<variant, data, state, selectedProducts, chips, shaftCards,
                   hidden, titles, summary, pc>>

\* Fault considered: the closing timer restores the button and nothing else
SuccessTimerFiresButtonOnly ==
    /\ timers.outcome = "success"
    /\ timers' = [timers EXCEPT !.outcome = "none"]
    /\ Becomes([This EXCEPT !.button = [text |-> OriginalText,
                                        disabled |-> FALSE]])
    /\ calls' = <<>>
    /\ lastEvent' = [op |-> "successTimer", pre |-> Before]
    /\ UNCHANGED <<variant, data, pc>>

\* the timer of the success path: part_000 resets the builder and enables
\* the button, system-builder.js restores the button only
SuccessTimerFires ==
    /\ timers.outcome = "success"
    /\ timers' = [timers EXCEPT !.outcome = "none"]
    /\ IF variant = "current"
       THEN Becomes([resetBuilder(This) EXCEPT !.button.disabled = FALSE])
       ELSE Becomes([This EXCEPT !.button = [text |-> OriginalText,
                                             disabled |-> FALSE]])
    /\ calls' = <<>>
    /\ lastEvent' = [op |-> "successTimer", pre |-> Before]
    /\ UNCHANGED <<variant, data, pc>>

Next ==
    \/ ChipClick
    \/ ProductCardClick
    \/ RemoveFromSummary
    \/ QtyChange
    \/ AddToCartClick
    \/ AddItemsSettles
    \/ ReadCartSettles
    \/ PromptTimerFires
    \/ ErrorTimerFires
    \/ SuccessTimerFires

Spec == Init /\ [][Next]_vars

\* The event loop runs every callback a setTimeout has queued: neither file
\* keeps a timer id, so no timer is ever cleared.
TimersFire ==
    /\ WF_vars(PromptTimerFires)
    /\ WF_vars(ErrorTimerFires)
    /\ WF_vars(SuccessTimerFires)

FairSpec == Init /\ [][Next]_vars /\ TimersFire

\* A pending fetch settles: it resolves or rejects, and the awaiting
\* handleAddToCart call resumes.
CallsSettle ==
    /\ WF_vars(AddItemsSettles)
    /\ WF_vars(ReadCartSettles)

LiveSpec == Init /\ [][Next]_vars /\ TimersFire /\ CallsSettle

\* The feeds whose text loadData hands to JSON.parse
FeedNames == [current |-> {"sports", "shaftTypes", "shaftSizes", "sportLabels"},
              legacy  |-> {"sports", "shaftTypes", "shaftSizes"}]

\* connectedCallback on a page where one of the embedded feeds is malformed
InitMalformed ==
    /\ variant \in Variants
    /\ \E bad \in FeedNames[variant] :
          data = IF variant = "current" THEN loadData(Feeds(FeedCurrent, bad))
                 ELSE loadDataLegacy(Feeds(FeedLegacy, bad))
    /\ state = [sport |-> null, shaftType |-> null, shaftSize |-> null]
    /\ selectedProducts = <<>>
    /\ chips = [shaftType |-> <<>>, shaftSize |-> <<>>]
    /\ shaftCards = <<>>
    /\ hidden = [s \in {"shaft-type", "shaft-size", "balls", "pineapples",
                        "shaft-product"} |-> TRUE]
    /\ titles = [shaftType |-> DefaultShaftTypeTitle,
                 shaftSize |-> DefaultShaftSizeTitle]
    /\ summary = [items |-> <<>>, total |-> 0, count |-> 0]
    /\ button = [text |-> OriginalText, disabled |-> FALSE]
    /\ pc = "idle"
    /\ timers = [prompt |-> 0, outcome |-> "none"]
    /\ calls = <<>>
    /\ lastEvent = [op |-> "connectedCallback"]

MalformedSpec == InitMalformed /\ [][Next]_vars

-----------------------------------------------------------------------------
(* Vocabulary of the properties.                                           *)

HasShaft == Has(selectedProducts, ShaftKey)

ShaftEntry == Lookup(selectedProducts, ShaftKey)[1]

\* the shaft variants the catalog lists for a shaft size
catalogShafts(handle) ==
    LET sizes == {data.shaftSizes[i] : i \in DOMAIN data.shaftSizes}
        list(ss) == IF "shafts" \in DOMAIN ss THEN ss.shafts ELSE ss.shaft
    IN  UNION {Range(list(ss)) : ss \in {x \in sizes : x.handle = handle}}

catalogShaftIds(handle) == {v.id : v \in catalogShafts(handle)}

\* the sports a shaft type of the catalog belongs to
sportsOf(st) ==
    IF "sportHandles" \in DOMAIN st THEN st.sportHandles ELSE {st.sportHandle}

\* the selection as the set of its (slot, variant id, quantity) triples
Content(sp) ==
    {[slotKey |-> p.slotKey, id |-> p.id, quantity |-> Quantity(p)] : p \in Range(sp)}

\* the card handler of the running variant
cardClick(self, card) ==
    IF variant = "current" THEN handleProductCardClick(self, card)
    ELSE handleProductCardClickLegacy(self, card)

ChoseChip(field) == lastEvent.op = "chip" /\ lastEvent.field = field

ToggledShaft == lastEvent.op = "card" /\ lastEvent.slotKey = ShaftKey

PreShaft == Lookup(lastEvent.pre.selectedProducts, ShaftKey)

-----------------------------------------------------------------------------
(* C1: in part_000, whenever the selection holds a shaft entry, a shaft    *)
(* size is chosen and the entry's variant id is one of the shaft variants  *)
(* the catalog lists for that size.                                        *)
C1_ShaftReachableFromPath ==
    variant = "current" /\ HasShaft
        => /\ state.shaftSize # null
           /\ ShaftEntry.id \in catalogShaftIds(state.shaftSize)

\* a click on a shaft card of "32in", the second size of its shaft type,
\* has put a shaft entry into the selection
C1_Witness ==
    /\ variant = "current"
    /\ ToggledShaft
    /\ HasShaft
    /\ state.shaftSize = "32in"

(* C2: after every step, a chosen shaft type implies a chosen sport that   *)
(* the shaft type lists, and a chosen shaft size implies a chosen shaft    *)
(* type that is the size's shaftTypeHandle.                                *)
C2_PathInvariant ==
    /\ state.shaftType # null =>
          /\ state.sport # null
          /\ \E i \in DOMAIN data.shaftTypes :
                /\ data.shaftTypes[i].handle = state.shaftType
                /\ state.sport \in sportsOf(data.shaftTypes[i])
    /\ state.shaftSize # null =>
          /\ state.shaftType # null
          /\ \E i \in DOMAIN data.shaftSizes :
                /\ data.shaftSizes[i].handle = state.shaftSize
                /\ data.shaftSizes[i].shaftTypeHandle = state.shaftType

\* a size chosen under a shaft type shared by two sports, under the second
C2_Witness ==
    /\ ChoseChip("shaft-size")
    /\ state = [sport |-> "softball", shaftType |-> "alloy", shaftSize |-> "31in"]

(* C3: choosing a sport, also the sport already chosen, ends with that     *)
(* sport, no shaft type, no shaft size and an empty shaft slot.            *)
C3_ChooseSportResets ==
    ChoseChip("sport")
        => /\ state = [sport |-> lastEvent.value, shaftType |-> null,
                       shaftSize |-> null]
           /\ ~HasShaft

\* the sport chosen again, from a state with a size and a shaft selected
C3_Witness ==
    /\ ChoseChip("sport")
    /\ lastEvent.pre.state.sport = lastEvent.value
    /\ lastEvent.pre.state.shaftSize # null
    /\ PreShaft # <<>>

(* C4: after a sport or a shaft type is chosen the selection is empty: no  *)
(* accessory entry and no shaft entry remain, and the summary counts 0     *)
(* items.                                                                  *)
C4_ChoiceEmptiesSelection ==
    ChoseChip("sport") \/ ChoseChip("shaft-type")
        => /\ selectedProducts = <<>>
           /\ Len(summary.items) = 0
           /\ summary.total = 0
           /\ button.text = OriginalText

\* a shaft type chosen from a state with the shaft and both accessories
\* selected, one of them with quantity 2
C4_Witness ==
    /\ ChoseChip("shaft-type")
    /\ Len(lastEvent.pre.selectedProducts) = 3
    /\ extraQty(lastEvent.pre.selectedProducts) = 1
    /\ Lookup(lastEvent.pre.selectedProducts, accessoryKey("pineapple", "0")) # <<>>

(* C5: in part_000, choosing a shaft size ends with that size and an empty *)
(* shaft slot, also when the size or the selected variant stays offered.   *)
C5_ChooseSizeClearsShaft ==
    variant = "current" /\ ChoseChip("shaft-size")
        => /\ state.shaftSize = lastEvent.value
           /\ ~HasShaft

\* another size is chosen that offers the variant selected before
C5_Witness ==
    /\ variant = "current"
    /\ ChoseChip("shaft-size")
    /\ lastEvent.pre.state.shaftSize # state.shaftSize
    /\ PreShaft # <<>>
    /\ PreShaft[1].id \in catalogShaftIds(state.shaftSize)

(* C6: in system-builder.js, choosing another shaft size from a state      *)
(* whose shaft slot holds the variant of the size chosen before empties    *)
(* the slot, and the selection never holds the shaft variant of a size     *)
(* other than the current one.                                             *)
C6_LegacySizeClearsShaft ==
    /\ ( /\ variant = "legacy"
         /\ ChoseChip("shaft-size")
         /\ lastEvent.pre.state.shaftSize # state.shaftSize
         /\ PreShaft # <<>> )
          => ~HasShaft
    /\ variant = "legacy" /\ HasShaft
          => ShaftEntry.id \in catalogShaftIds(state.shaftSize)

(* C7: in part_000, a click on the shaft card of variant V empties the     *)
(* shaft slot when V occupied it and otherwise leaves exactly V in it with *)
(* quantity 1; the selection never holds two shaft entries.                *)
C7_ShaftToggleExclusive ==
    /\ Len(Lookup(selectedProducts, ShaftKey)) <= 1
    /\ variant = "current" /\ ToggledShaft =>
          \E v \in catalogShafts(state.shaftSize) :
              /\ lastEvent.card = shaftCard(v)
              /\ IF PreShaft # <<>> /\ PreShaft[1].id = v.id
                 THEN ~HasShaft
                 ELSE /\ HasShaft
                      /\ ShaftEntry.id = v.id
                      /\ ShaftEntry.quantity = 1

\* variant V replaces another variant W of the same size
C7_Witness ==
    /\ variant = "current"
    /\ ToggledShaft
    /\ PreShaft # <<>>
    /\ HasShaft
    /\ PreShaft[1].id # ShaftEntry.id

(* C8 as stated: from every reachable selection, two clicks in a row on   *)
(* the card of any shaft variant the current size offers return the        *)
(* selection to the same slots, variant ids and quantities.                *)
C8_ToggleTwiceAlwaysRestores ==
    \A v \in catalogShafts(state.shaftSize) :
        shaftCard(v) \in ClickableCards =>
            Content(cardClick(cardClick(This, shaftCard(v)),
                              shaftCard(v)).selectedProducts)
                = Content(selectedProducts)

(* C8 as amended: two clicks in a row on the card of shaft variant V       *)
(* return the selection to the same slots, variant ids and quantities      *)
(* when the shaft slot was empty or held V with quantity 1.                *)
C8_ToggleTwiceRestores ==
    \A v \in catalogShafts(state.shaftSize) :
        ( /\ shaftCard(v) \in ClickableCards
          /\ \/ ~HasShaft
             \/ ShaftEntry.id = v.id /\ Quantity(ShaftEntry) = 1 )
        => Content(cardClick(cardClick(This, shaftCard(v)),
                             shaftCard(v)).selectedProducts)
               = Content(selectedProducts)

\* a click on a shaft card has left its variant in the slot with quantity
\* 1, beside an accessory entry, and the card is still there to be clicked
C8_Witness ==
    /\ ToggledShaft
    /\ HasShaft
    /\ Quantity(ShaftEntry) = 1
    /\ Len(selectedProducts) >= 2
    /\ lastEvent.card \in ClickableCards

(* C9: a click on an accessory card changes at most the slot of that card: *)
(* every other slot keeps its presence, variant id and quantity.           *)
C9_AccessoryToggleFrame ==
    [][ lastEvent'.op = "card" /\ lastEvent'.slotKey # ShaftKey
          => \A k \in (Keys(selectedProducts) \cup Keys(selectedProducts'))
                        \ {lastEvent'.slotKey} :
                Lookup(selectedProducts', k) = Lookup(selectedProducts, k) ]_vars

\* 'ball-0' was toggled beside a shaft entry and a 'pineapple-0' entry of
\* quantity 2
C9_Witness ==
    /\ lastEvent.op = "card"
    /\ lastEvent.slotKey = accessoryKey("ball", "0")
    /\ HasShaft
    /\ Lookup(selectedProducts, accessoryKey("pineapple", "0")) # <<>>
    /\ Quantity(Lookup(selectedProducts, accessoryKey("pineapple", "0"))[1]) = 2

(* C10: a slot that a card click has filled holds quantity 1, whatever     *)
(* quantity the slot held before.                                          *)
C10_ToggleOnQuantityOne ==
    ( /\ lastEvent.op = "card"
      /\ Has(selectedProducts, lastEvent.slotKey)
      /\ Lookup(selectedProducts, lastEvent.slotKey)
            # Lookup(lastEvent.pre.selectedProducts, lastEvent.slotKey) )
    => Quantity(Lookup(selectedProducts, lastEvent.slotKey)[1]) = 1

\* a shaft variant replaced another one whose quantity was 2
C10_Witness ==
    /\ ToggledShaft
    /\ HasShaft
    /\ PreShaft # <<>>
    /\ Quantity(PreShaft[1]) = 2

-----------------------------------------------------------------------------
(* C11: in every reachable state the summary is a function of the          *)
(* selection alone: the total shown is the sum over the entries of unit    *)
(* price times quantity, the count shown is the number of occupied slots,  *)
(* and there is one line per entry; a +1 on a slot's quantity raises the   *)
(* total by the slot's unit price and leaves the count as it was.          *)

RECURSIVE GrandTotal(_)
GrandTotal(S) ==
    IF S = <<>> THEN 0
    ELSE Head(S).price * (IF "quantity" \in DOMAIN Head(S)
                          THEN Head(S).quantity ELSE 1)
         + GrandTotal(Tail(S))

C11_SummaryOfSelection ==
    /\ summary.total = GrandTotal(selectedProducts)
    /\ summary.count = Cardinality(Keys(selectedProducts))
    /\ [i \in DOMAIN summary.items |-> summary.items[i].slotKey]
         = [i \in DOMAIN selectedProducts |-> selectedProducts[i].slotKey]
    /\ (lastEvent.op = "qty" /\ lastEvent.delta = 1) =>
          LET S == lastEvent.pre.selectedProducts
          IN  /\ summary.total
                   = GrandTotal(S) + Lookup(S, lastEvent.slotKey)[1].price
              /\ summary.total > GrandTotal(S)
              /\ summary.count = Cardinality(Keys(S))

\* a quantity was raised while two slots were occupied: the count is 2, the
\* quantities add up to 3
C11_Witness ==
    /\ lastEvent.op = "qty"
    /\ lastEvent.delta = 1
    /\ Len(selectedProducts) = 2
    /\ summary.count = 2

-----------------------------------------------------------------------------
(* C12: in every reachable state every entry of the selection has a        *)
(* quantity of at least 1 (an entry of system-builder.js carries no        *)
(* quantity and stands for one unit), whatever toggles, +1/-1 changes,     *)
(* removals, chip choices, submissions and resets came before.             *)

C12_QuantityAtLeastOne ==
    \A i \in DOMAIN selectedProducts :
        /\ variant = "current" => "quantity" \in DOMAIN selectedProducts[i]
        /\ "quantity" \in DOMAIN selectedProducts[i]
              => selectedProducts[i].quantity >= 1

\* a -1 on a slot whose quantity was 1: the slot is still there with 1
C12_Witness ==
    /\ lastEvent.op = "qty"
    /\ lastEvent.delta = -1
    /\ Lookup(lastEvent.pre.selectedProducts, lastEvent.slotKey)[1].quantity = 1
    /\ Lookup(selectedProducts, lastEvent.slotKey)[1].quantity = 1

-----------------------------------------------------------------------------
(* C13: a quantity adjustment that would bring the slot's quantity below 1 *)
(* changes nothing: path, selection (all slots, all quantities), summary   *)
(* and every other part of the component stay as they are; so does an      *)
(* adjustment that names a slot the selection does not hold, or no slot.   *)
(* An adjustment to a quantity of at least 1 leaves the path alone and     *)
(* changes, in the selection, only that entry's quantity, and in the       *)
(* summary only that entry's line and, by the same amount, the total.      *)

\* slot keys a quantity button could name, and the empty key
SlotKeys ==
    {ShaftKey, <<>>, accessoryKey("ball", "7")}
    \cup {cardSlotKey(c) : c \in AccessoryCards}

C13_QtyStep ==
    /\ variant = "current" =>
          \A k \in SlotKeys \ Keys(selectedProducts), d \in {-1, 1} :
              handleQtyChange(This, k, d) = This
    /\ lastEvent'.op = "qty" =>
          LET k == lastEvent'.slotKey
              d == lastEvent'.delta
              e == Lookup(selectedProducts, k)[1]
          IN  IF e.quantity + d < 1
              THEN UNCHANGED <<state, selectedProducts, summary, chips,
                               shaftCards, hidden, titles, button, pc,
                               timers, calls>>
              ELSE /\ UNCHANGED <<state, chips, shaftCards, hidden, titles,
                                  pc, timers, calls>>
                   /\ selectedProducts' =
                        [i \in DOMAIN selectedProducts |->
                            IF selectedProducts[i].slotKey = k
                            THEN [e EXCEPT !.quantity = e.quantity + d]
                            ELSE selectedProducts[i]]
                   /\ summary'.items =
                        [i \in DOMAIN summary.items |->
                            IF summary.items[i].slotKey = k
                            THEN [slotKey   |-> k,
                                  qty       |-> e.quantity + d,
                                  linePrice |-> e.price * (e.quantity + d)]
                            ELSE summary.items[i]]
                   /\ summary'.total = summary.total + d * e.price
                   /\ summary'.count = summary.count

C13_QtyChangeRejectedOrExact == [][C13_QtyStep]_vars

\* a -1 on a slot at quantity 1 was rejected while another slot held 2
C13_Witness ==
    /\ lastEvent.op = "qty"
    /\ lastEvent.delta = -1
    /\ Lookup(selectedProducts, lastEvent.slotKey)[1].quantity = 1
    /\ selectedProducts = lastEvent.pre.selectedProducts
    /\ \E i \in DOMAIN selectedProducts : selectedProducts[i].quantity = 2

-----------------------------------------------------------------------------
(* C14: a submit while the selection is empty starts nothing: no request   *)
(* is sent (neither add-items nor read-cart), nothing is dispatched, no    *)
(* closing timer (and so no reset) is set, and path, selection and summary *)
(* are unchanged; the button shows the prompt and stays enabled.  The      *)
(* prompt timer, when it fires, changes the button text only.              *)

C14_EmptySubmitStep ==
    /\ (lastEvent'.op = "submit" /\ selectedProducts = <<>>) =>
          /\ lastEvent'.body = <<>>
          /\ pc = "idle" /\ pc' = "idle"
          /\ calls = <<>> /\ calls' = <<>>
          /\ timers.outcome = "none" /\ timers'.outcome = "none"
          /\ timers'.prompt = timers.prompt + 1
          /\ button' = [text |-> "Select products first", disabled |-> FALSE]
          /\ UNCHANGED <<state, selectedProducts, summary, chips, shaftCards,
                         hidden, titles>>
    /\ lastEvent'.op = "promptTimer" =>
          UNCHANGED <<state, selectedProducts, summary, chips, shaftCards,
                      hidden, titles, pc, calls>>
          /\ timers'.outcome = timers.outcome
          /\ button'.disabled = button.disabled

C14_NothingSelected == [][C14_EmptySubmitStep]_vars

\* submit with a complete path and nothing selected
C14_Witness ==
    /\ lastEvent.op = "submit"
    /\ selectedProducts = <<>>
    /\ state.shaftSize # null
    /\ button.text = "Select products first"
    /\ pc = "idle"

-----------------------------------------------------------------------------
(* C15: a submit with a non-empty selection sends one add-items request    *)
(* whose body holds, for every entry of the selection as it is when the    *)
(* submit is handled, one pair of the entry's variant id and its current   *)
(* quantity, in the selection's insertion order, and nothing else.         *)

C15_BatchIsSelection ==
    (lastEvent.op = "submit" /\ lastEvent.pre.selectedProducts # <<>>) =>
        LET S == lastEvent.pre.selectedProducts
            B == lastEvent.body
        IN  /\ Len(B) = Len(S)
            /\ \A i \in DOMAIN S :
                  /\ DOMAIN B[i] = {"id", "quantity"}
                  /\ B[i].id = S[i].id
                  /\ B[i].quantity = IF "quantity" \in DOMAIN S[i]
                                     THEN S[i].quantity ELSE 1
            /\ calls = <<"addItems">>
            /\ pc = "addItems"
            /\ selectedProducts = S

\* two entries were sent, the accessory (chosen first, quantity 2) ahead of
\* the shaft
C15_Witness ==
    /\ lastEvent.op = "submit"
    /\ Len(lastEvent.body) = 2
    /\ lastEvent.body[1].quantity = 2
    /\ lastEvent.pre.selectedProducts[2].slotKey = ShaftKey
    /\ lastEvent.body[2].id = ShaftEntry.id

-----------------------------------------------------------------------------
(* C16: when the add-items request rejects, answers with a non-ok status   *)
(* or with an unreadable body, the failure path leaves path, selection and *)
(* summary as they were: the catch block only writes the error text and    *)
(* sets the error timer (no read-cart request, no dispatch, no closing     *)
(* timer of the success path), and the error timer, when it fires, only    *)
(* restores and enables the button.                                        *)

C16_FailureStep ==
    /\ (lastEvent'.op = "addItems" /\ lastEvent'.result # "ok") =>
          /\ UNCHANGED <<state, selectedProducts, summary, chips, shaftCards,
                         hidden, titles>>
          /\ timers' = [timers EXCEPT !.outcome = "error"]
          /\ calls' = <<"addItems">>
          /\ pc' = "idle"
          /\ button' = [text |-> "Error - Try Again", disabled |-> TRUE]
    /\ lastEvent'.op = "errorTimer" =>
          /\ UNCHANGED <<state, selectedProducts, summary, chips, shaftCards,
                         hidden, titles, pc>>
          /\ timers' = [timers EXCEPT !.outcome = "none"]
          /\ button' = [text |-> OriginalText, disabled |-> FALSE]

C16_FailureKeepsDomain == [][C16_FailureStep]_vars

\* the add-items request answered with a non-ok status and the path and
\* both entries are still there
C16_Witness ==
    /\ lastEvent.op = "addItems"
    /\ lastEvent.result = "notOk"
    /\ state.shaftSize # null
    /\ Len(selectedProducts) = 2
    /\ HasShaft
    /\ selectedProducts = lastEvent.pre.selectedProducts
    /\ timers.outcome = "error"

-----------------------------------------------------------------------------
(* C17: in part_000 every successful submission (add-items and read-cart   *)
(* both succeeded, so the closing timer is set) is eventually followed by  *)
(* the reset state: sport, shaft type and shaft size none and the          *)
(* selection empty.  Nothing cancels the reset: while the closing timer is *)
(* pending, every step either leaves it pending or is the timer firing.    *)

IsReset ==
    /\ state = [sport |-> null, shaftType |-> null, shaftSize |-> null]
    /\ selectedProducts = <<>>

ClosingTimerStays ==
    timers.outcome = "success" =>
        \/ timers'.outcome = "success"
        \/ lastEvent'.op = "successTimer" /\ timers'.outcome = "none"

C17_SuccessLeadsToReset ==
    /\ (variant = "current" /\ timers.outcome = "success") ~> IsReset
    /\ [][ClosingTimerStays]_vars

\* the closing timer of a successful submission has fired in part_000 and
\* took away a path and a selection
C17_Witness ==
    /\ variant = "current"
    /\ lastEvent.op = "successTimer"
    /\ lastEvent.pre.state.shaftSize # null
    /\ lastEvent.pre.selectedProducts # <<>>
    /\ IsReset

-----------------------------------------------------------------------------
(* C18: at most one submission is in flight.  From the submit with a       *)
(* non-empty selection until the timer that closes the submission has      *)
(* re-enabled the button, the button is disabled and exactly one add-items *)
(* request has been issued; a submit is handled only when no request is    *)
(* pending and no closing timer is set.                                    *)

InFlight == pc # "idle" \/ timers.outcome # "none"

C18_SubmitStep ==
    /\ InFlight =>
          /\ button.disabled
          /\ Len(SelectSeq(calls, LAMBDA c : c = "addItems")) = 1
    /\ ~InFlight => calls = <<>>
    /\ lastEvent'.op = "submit" =>
          /\ ~InFlight
          /\ Len(SelectSeq(calls', LAMBDA c : c = "addItems")) <= 1

C18_OneSubmissionInFlight == [][C18_SubmitStep]_vars

\* a card was clicked while the add-items request was pending: the button
\* is still disabled
C18_Witness ==
    /\ pc = "addItems"
    /\ lastEvent.op = "card"
    /\ selectedProducts # lastEvent.pre.selectedProducts
    /\ button.disabled
    /\ calls = <<"addItems">>

-----------------------------------------------------------------------------
(* C19: a choice event is not validated against the catalog.  A value that *)
(* no feed lists for its field is applied like any other: the field takes  *)
(* the value, the fields after it become none, the shaft slot is emptied   *)
(* (and, for sport and shaft type, the accessory slots too, while a shaft  *)
(* size keeps them), and the next step is shown without candidates (for a  *)
(* shaft size: without shaft card).  This holds for the chip the catalog   *)
(* does not know and for the handler applied to an unknown handle in any   *)
(* reachable state.                                                        *)

UnknownHandle == "no-such-handle"

CatalogHandles(field) ==
    CASE field = "sport" -> Range(data.sports)
      [] field = "shaft-type" ->
           {data.shaftTypes[i].handle : i \in DOMAIN data.shaftTypes}
      [] field = "shaft-size" ->
           {data.shaftSizes[i].handle : i \in DOMAIN data.shaftSizes}

\* the chip handler of the running variant
chipClick(self, field, value) ==
    IF variant = "current" THEN handleChipClick(self, field, value)
    ELSE handleChipClickLegacy(self, field, value)

\* r is what a choice of `value` for `field` makes of `self`
AppliedChoice(self, field, value, r) ==
    CASE field = "sport" ->
            /\ r.state = [sport |-> value, shaftType |-> null,
                          shaftSize |-> null]
            /\ r.selectedProducts = <<>>
            /\ ~r.hidden["shaft-type"] /\ r.hidden["shaft-size"]
      [] field = "shaft-type" ->
            /\ r.state = [self.state EXCEPT !.shaftType = value,
                                            !.shaftSize = null]
            /\ r.selectedProducts = <<>>
            /\ ~r.hidden["shaft-size"]
      [] field = "shaft-size" ->
            /\ r.state = [self.state EXCEPT !.shaftSize = value]
            /\ r.selectedProducts = Delete(self.selectedProducts, ShaftKey)
            /\ ~r.hidden["balls"] /\ ~r.hidden["pineapples"]

\* r shows no candidate for the unknown value of `field`
NoCandidates(field, r) ==
    CASE field = "sport" -> r.chips.shaftType = <<>>
      [] field = "shaft-type" -> r.chips.shaftSize = <<>>
      [] field = "shaft-size" -> r.shaftCards = <<>> /\ r.hidden["shaft-product"]

C19_UnknownHandleApplied ==
    /\ \A field \in {"sport", "shaft-type", "shaft-size"} :
          LET r == chipClick(This, field, UnknownHandle)
          IN  /\ AppliedChoice(This, field, UnknownHandle, r)
              /\ NoCandidates(field, r)
    /\ (lastEvent.op = "chip"
          /\ lastEvent.value \notin CatalogHandles(lastEvent.field)) =>
          /\ AppliedChoice(lastEvent.pre, lastEvent.field, lastEvent.value, This)
          /\ NoCandidates(lastEvent.field, This)

\* the chip of the unknown sport was clicked on a complete path with a
\* shaft selected: the path is now that sport alone, the selection is empty
C19_Witness ==
    /\ lastEvent.op = "chip"
    /\ lastEvent.value \notin CatalogHandles(lastEvent.field)
    /\ lastEvent.pre.state.shaftSize # null
    /\ Has(lastEvent.pre.selectedProducts, ShaftKey)
    /\ state.sport = lastEvent.value
    /\ selectedProducts = <<>>

\* C19 as first stated: a choice of a handle that is not in the catalog
\* leaves path and selection as they were
C19_UnknownHandleIgnored ==
    (lastEvent.op = "chip"
      /\ lastEvent.value \notin CatalogHandles(lastEvent.field)) =>
        /\ state = lastEvent.pre.state
        /\ selectedProducts = lastEvent.pre.selectedProducts

-----------------------------------------------------------------------------
(* C20: a toggle whose card carries no variant id does nothing, for the    *)
(* shaft slot and for the accessory slots, whether the slot it names is    *)
(* occupied or empty: selection, path, summary and the rest of the         *)
(* component are unchanged and no entry is created.  This holds for the    *)
(* click on the card without id and for the handler applied, in any        *)
(* reachable state, to any card stripped of its id.                        *)

BlankCards ==
    {[c EXCEPT !.variantId = <<>>] :
        c \in AccessoryCards \cup Range(shaftCards) \cup {shaftCard(ShaftA)}}

C20_BlankToggleStep ==
    /\ \A c \in BlankCards : cardClick(This, c) = This
    /\ (lastEvent'.op = "card" /\ lastEvent'.card.variantId = <<>>) =>
          UNCHANGED <<state, selectedProducts, summary, chips, shaftCards,
                      hidden, titles, button, pc, timers, calls>>

C20_BlankToggleIsNoOp == [][C20_BlankToggleStep]_vars

\* the card without id was clicked while the shaft slot and the slot of
\* the other ball card were occupied
C20_Witness ==
    /\ lastEvent.op = "card"
    /\ lastEvent.card.variantId = <<>>
    /\ HasShaft
    /\ Has(selectedProducts, accessoryKey("ball", "0"))
    /\ selectedProducts = lastEvent.pre.selectedProducts

-----------------------------------------------------------------------------
(* C21: resetBuilder, from any reachable state of part_000, ends with      *)
(* sport, shaft type and shaft size none, the selection entirely empty,    *)
(* a summary of no line, count 0 and total 0, and both step titles at      *)
(* their defaults.  This holds for the handler applied to every reachable  *)
(* state and for the state the closing timer leaves.                       *)

AfterReset(r) ==
    /\ r.state = [sport |-> null, shaftType |-> null, shaftSize |-> null]
    /\ r.selectedProducts = <<>>
    /\ r.summary = [items |-> <<>>, total |-> 0, count |-> 0]
    /\ r.titles = [shaftType |-> DefaultShaftTypeTitle,
                   shaftSize |-> DefaultShaftSizeTitle]
    /\ r.hidden["shaft-type"] /\ r.hidden["shaft-size"]

C21_ResetEndsInNoSport ==
    variant = "current" =>
        /\ AfterReset(resetBuilder(This))
        /\ lastEvent.op = "successTimer" => AfterReset(This)

\* the reset took away a softball path (whose titles are overridden) and a
\* selection of a shaft and an accessory
C21_Witness ==
    /\ variant = "current"
    /\ lastEvent.op = "successTimer"
    /\ lastEvent.pre.state.sport = "softball"
    /\ Has(lastEvent.pre.selectedProducts, ShaftKey)
    /\ Len(lastEvent.pre.selectedProducts) = 2
    /\ titles.shaftType = DefaultShaftTypeTitle
    /\ summary.count = 0

-----------------------------------------------------------------------------
(* C22: when one of the embedded feeds is malformed, the catalog after     *)
(* loading is empty: the lists of sports, shaft types and shaft sizes are  *)
(* all empty, whichever feed was the malformed one.                        *)

C22_MalformedLoadsEmpty ==
    /\ data.sports = <<>>
    /\ data.shaftTypes = <<>>
    /\ data.shaftSizes = <<>>

-----------------------------------------------------------------------------
(* C23: within one submission the calls and notifications come in order.   *)
(* add-items is invoked first; read-cart is invoked only in the step in    *)
(* which add-items answered success; the cart events are dispatched only   *)
(* in the step in which read-cart returned; the closing timer (the reset,  *)
(* in part_000) fires only after the events were dispatched.  When         *)
(* add-items fails, read-cart is not invoked and nothing is dispatched     *)
(* until the error timer closes the submission.                            *)

CallOrder ==
    <<"addItems", "readCart", "updateCartCount", "cart:change", "cart:refresh">>
    \o (IF variant = "current" THEN <<"ON_ITEM_ADDED">> ELSE <<>>)

C23_CallStep ==
    /\ Len(calls) <= Len(CallOrder)
    /\ calls = SubSeq(CallOrder, 1, Len(calls))
    /\ calls' # calls =>
          CASE lastEvent'.op = "submit" ->
                 calls = <<>> /\ calls' = <<"addItems">>
            [] lastEvent'.op = "addItems" ->
                 /\ lastEvent'.result = "ok"
                 /\ calls = <<"addItems">>
                 /\ calls' = <<"addItems", "readCart">>
            [] lastEvent'.op = "readCart" ->
                 /\ lastEvent'.result = "ok"
                 /\ calls = <<"addItems", "readCart">>
                 /\ calls' = CallOrder
            [] lastEvent'.op \in {"errorTimer", "successTimer"} ->
                 calls' = <<>>
            [] OTHER -> FALSE
    /\ (lastEvent'.op = "addItems" /\ lastEvent'.result # "ok") =>
          calls' = <<"addItems">> /\ pc' = "idle"
    /\ (timers.outcome = "error" /\ pc = "idle") =>
          calls' = calls \/ lastEvent'.op = "errorTimer"
    /\ lastEvent'.op = "successTimer" => calls = CallOrder
    /\ (~IsReset /\ IsReset') =>
          lastEvent'.op = "successTimer" /\ calls = CallOrder

C23_CallsInOrder == [][C23_CallStep]_vars

\* part_000 has reset after a submission whose events were all dispatched
C23_Witness ==
    /\ variant = "current"
    /\ lastEvent.op = "successTimer"
    /\ lastEvent.pre.selectedProducts # <<>>
    /\ IsReset
    /\ calls = <<>>
    /\ ~button.disabled

-----------------------------------------------------------------------------
(* C24: provided the pending fetches settle and the timers fire, every     *)
(* submission that was started re-enables the button: whenever the button  *)
(* is disabled it is eventually enabled again, after a failure and after a *)
(* success alike.  When the error timer has fired the button is enabled    *)
(* and the selection is what it was, so a non-empty selection can be       *)
(* submitted again.                                                        *)

RetryPossible ==
    lastEvent.op = "errorTimer" =>
        /\ ~button.disabled
        /\ selectedProducts = lastEvent.pre.selectedProducts
        /\ selectedProducts # <<>> => ENABLED AddToCartClick

C24_SubmitReenabled ==
    /\ button.disabled ~> ~button.disabled
    /\ []RetryPossible

\* the error timer has fired, the selection is still there and the button
\* is enabled
C24_Witness ==
    /\ lastEvent.op = "errorTimer"
    /\ Len(selectedProducts) = 2
    /\ ~button.disabled
    /\ button.text = OriginalText
    /\ pc = "idle"

-----------------------------------------------------------------------------
(* C25: whenever a submission is in the failure outcome (error text shown, *)
(* error timer set), the add-items request of that submission did not      *)
(* answer success: read-cart was never invoked for it.                     *)

C25_FailureMeansNotAdded ==
    timers.outcome = "error" => "readCart" \notin Range(calls)

-----------------------------------------------------------------------------
(* C26: in part_000, while the closing timer of a successful submission is *)
(* pending, no user event (toggle, quantity change, removal from the       *)
(* summary, chip choice) changes the selection, so that the reset discards *)
(* the selection that was sent.                                            *)

C26_NoUserChangeBeforeReset ==
    (/\ variant = "current"
     /\ timers.outcome = "success"
     /\ lastEvent.op \in {"card", "qty", "remove", "chip"}) =>
        selectedProducts = lastEvent.pre.selectedProducts

-----------------------------------------------------------------------------
(* C27: in part_000 a batch that was added cannot be submitted again: a    *)
(* submission whose add-items request answered success (read-cart was      *)
(* invoked for it) leaves the button disabled until the selection is       *)
(* empty, that is, the step that enables the button again ends in a state  *)
(* with an empty selection.                                                *)

C27_ReenableStep ==
    (/\ variant = "current"
     /\ "readCart" \in Range(calls)
     /\ button.disabled
     /\ ~button'.disabled) =>
        selectedProducts' = <<>>

C27_AddedBatchNotResubmittable == [][C27_ReenableStep]_vars

-----------------------------------------------------------------------------
(* C28: in every reachable state the selection holds an accessory entry    *)
(* (a ball or a pineapple slot) only if a shaft size is chosen; the        *)
(* accessory panels are shown only while a shaft size is chosen; and an    *)
(* event that unsets the shaft size (sport change, shaft-type change,      *)
(* reset) leaves no accessory entry.                                       *)

AccessoryEntries(sp) ==
    {p \in Range(sp) : startsWith(p.slotKey, "ball")
                        \/ startsWith(p.slotKey, "pineapple")}

C28_AccessoryNeedsSize ==
    /\ AccessoryEntries(selectedProducts) # {} => state.shaftSize # null
    /\ (~hidden["balls"] \/ ~hidden["pineapples"]) => state.shaftSize # null
    /\ (/\ lastEvent.op # "connectedCallback"
        /\ lastEvent.pre.state.shaftSize # null
        /\ state.shaftSize = null) =>
          /\ lastEvent.op \in {"chip", "successTimer"}
          /\ AccessoryEntries(selectedProducts) = {}
          /\ hidden["balls"] /\ hidden["pineapples"]

\* a sport change unset the shaft size and took both accessory entries away
C28_Witness ==
    /\ ChoseChip("sport")
    /\ Cardinality(AccessoryEntries(lastEvent.pre.selectedProducts)) = 2
    /\ lastEvent.pre.state.shaftSize # null
    /\ state.shaftSize = null
    /\ AccessoryEntries(selectedProducts) = {}

-----------------------------------------------------------------------------
(* C29: choosing a shaft size changes, of path and selection, only the     *)
(* shaft size and the shaft slot: sport and shaft type keep their values,  *)
(* and every accessory entry stays where it is with its variant id and its *)
(* quantity.  The chips, the step titles and the submission are untouched. *)

C29_ChooseSizeStep ==
    (lastEvent'.op = "chip" /\ lastEvent'.field = "shaft-size") =>
        /\ state' = [state EXCEPT !.shaftSize = lastEvent'.value]
        /\ Delete(selectedProducts', ShaftKey) = Delete(selectedProducts, ShaftKey)
        /\ UNCHANGED <<chips, titles, pc, timers, calls>>

C29_ChooseSizeFrame == [][C29_ChooseSizeStep]_vars

\* the size went from one to another while both accessory slots were
\* occupied, one with quantity 2
C29_Witness ==
    /\ ChoseChip("shaft-size")
    /\ lastEvent.pre.state.shaftSize # null
    /\ lastEvent.pre.state.shaftSize # state.shaftSize
    /\ Cardinality(AccessoryEntries(selectedProducts)) = 2
    /\ extraQty(selectedProducts) = 1
    /\ Delete(selectedProducts, ShaftKey)
         = Delete(lastEvent.pre.selectedProducts, ShaftKey)

-----------------------------------------------------------------------------
(* C30: in every reachable state the two step titles are determined by the *)
(* current sport: a title shows the override the catalog gives for the     *)
(* selected sport when there is one, and the default otherwise (no sport,  *)
(* a sport without override for that title, after the reset); the override *)
(* of a sport chosen earlier is not shown once the sport has changed.      *)

Override(sport, field) ==
    {l[field] : l \in {m \in Range(data.sportLabels) :
                          m.sportHandle = sport /\ m[field] # ""}}

TitleOf(sport, field, default) ==
    IF Override(sport, field) = {} THEN default
    ELSE CHOOSE t \in Override(sport, field) : TRUE

C30_TitlesFollowSport ==
    /\ titles.shaftType
         = TitleOf(state.sport, "shaftTypeTitle", DefaultShaftTypeTitle)
    /\ titles.shaftSize
         = TitleOf(state.sport, "shaftSizeTitle", DefaultShaftSizeTitle)

\* the sport went from one with an overridden title to one without, and
\* the default title is back
C30_Witness ==
    /\ ChoseChip("sport")
    /\ Override(lastEvent.pre.state.sport, "shaftTypeTitle") # {}
    /\ Override(state.sport, "shaftTypeTitle") = {}
    /\ titles.shaftType = DefaultShaftTypeTitle

-----------------------------------------------------------------------------
(* C31: in the legacy component a successful submission is followed by a
   full reset: when the closing timer of a success has re-enabled the submit
   button, the selection is empty and the path is back at no sport. *)
C31_LegacySuccessResets ==
    (/\ variant = "legacy"
     /\ lastEvent.op = "successTimer"
     /\ ~button.disabled) => IsReset

-----------------------------------------------------------------------------
(* C32: whenever no submission is in flight and none of the transient
   messages is shown, the label of the add-to-cart button reflects the
   selection: it names the number of entries when there are some and is the
   original label when there are none. *)
TransientMessages == {"Select products first", "Added!", "Error - Try Again"}

C32_LabelReflectsCount ==
    (/\ ~InFlight
     /\ button.text \notin TransientMessages) =>
        button.text = IF selectedProducts = <<>>
                      THEN OriginalText
                      ELSE CountLabel(Len(selectedProducts))

====
